---- MODULE Spec2Model ----
(***************************************************************************)
(* redispack: typed hash<K,V> and set<T> facades over a Redis client.      *)
(* The model instantiates hash<int, std::string> on the remote name "h"    *)
(* and set<std::string> on the remote name "s".  Every primitive facade    *)
(* operation is one command plus one sync_commit, i.e. one round trip that *)
(* the server executes atomically; key_vals() and clear() are sequences of *)
(* round trips between which another client of the server may act.         *)
(* diff, inter and union_ take a second facade, rhs, bound to the remote   *)
(* name "r".                                                               *)
(***************************************************************************)
EXTENDS Integers, Naturals, Sequences, FiniteSets, TLC

\* ------------------------------------------------------------------ bounds
MaxKey == 2
NumVals == 2
MaxArgs == 2
MaxExt == 2
MaxStrLen == 2

Keys == 1..MaxKey
Strs == { <<96 + i>> : i \in 1..NumVals }

\* ------------------------------------------------------------- Option<V>
None == << >>
Some(v) == << v >>

\* ------------------------------------------------ msgpack codec (util.h)
\* Variant of pack that writes every non-negative int as one byte.
pack_ints_as_one_byte(V, value) ==
    IF V = "int"
    THEN IF value < 0 THEN << 256 + value >> ELSE << value % 128 >>
    ELSE << 160 + Len(value) >> \o value

\* msgpack::pack of an int in 0..127 is the one-byte positive fixint, of an
\* int in 128..255 the uint 8 header 0xcc followed by the byte, of an int in
\* -32..-1 the one-byte negative fixint; of a string shorter than 32 bytes
\* it is the fixstr header 0xa0|len followed by the bytes.
pack(V, value) ==
    IF V = "int"
    THEN IF value < 0 THEN << 256 + value >>
         ELSE IF value <= 127 THEN << value >>
         ELSE << 204, value >>
    ELSE << 160 + Len(value) >> \o value

\* Variant of unpack that throws when bytes follow the first object.
unpack_rejects_extra_bytes(str) ==
    IF Len(str) = 0 THEN [ok |-> FALSE, type |-> "NONE", via |-> 0]
    ELSE LET b == str[1] IN
         IF b <= 127
         THEN IF Len(str) = 1
              THEN [ok |-> TRUE, type |-> "POSITIVE_INTEGER", via |-> b]
              ELSE [ok |-> FALSE, type |-> "NONE", via |-> 0]
         ELSE IF b >= 160 /\ b <= 191
              THEN IF Len(str) # 1 + (b - 160)
                   THEN [ok |-> FALSE, type |-> "NONE", via |-> 0]
                   ELSE [ok |-> TRUE, type |-> "STR",
                         via |-> SubSeq(str, 2, 1 + (b - 160))]
              ELSE IF b = 192 /\ Len(str) = 1
                   THEN [ok |-> TRUE, type |-> "NIL", via |-> 0]
              ELSE IF b = 204 /\ Len(str) = 2
                   THEN [ok |-> TRUE, type |-> "POSITIVE_INTEGER", via |-> str[2]]
              ELSE IF b >= 224 /\ Len(str) = 1
                   THEN [ok |-> TRUE, type |-> "NEGATIVE_INTEGER", via |-> b - 256]
              ELSE [ok |-> FALSE, type |-> "NONE", via |-> 0]

\* msgpack::unpack parses the first object of the buffer and ignores bytes
\* that follow it; it throws on an empty or truncated buffer.
unpack(str) ==
    IF Len(str) = 0 THEN [ok |-> FALSE, type |-> "NONE", via |-> 0]
    ELSE LET b == str[1] IN
         IF b <= 127 THEN [ok |-> TRUE, type |-> "POSITIVE_INTEGER", via |-> b]
         ELSE IF b >= 160 /\ b <= 191
              THEN IF Len(str) < 1 + (b - 160)
                   THEN [ok |-> FALSE, type |-> "NONE", via |-> 0]
                   ELSE [ok |-> TRUE, type |-> "STR",
                         via |-> SubSeq(str, 2, 1 + (b - 160))]
              ELSE IF b = 192 THEN [ok |-> TRUE, type |-> "NIL", via |-> 0]
              ELSE IF b = 204
                   THEN IF Len(str) < 2
                        THEN [ok |-> FALSE, type |-> "NONE", via |-> 0]
                        ELSE [ok |-> TRUE, type |-> "POSITIVE_INTEGER", via |-> str[2]]
              ELSE IF b >= 224
                   THEN [ok |-> TRUE, type |-> "NEGATIVE_INTEGER", via |-> b - 256]
              ELSE [ok |-> FALSE, type |-> "NONE", via |-> 0]

\* object::convert throws msgpack::type_error when the object's type is not
\* the one V adapts.
convert(V, obj) ==
    IF V = "int"
    THEN obj.type \in {"POSITIVE_INTEGER", "NEGATIVE_INTEGER"}
    ELSE obj.type = "STR"

encode_into_str(V, value) == pack(V, value)

decode_from_str(V, str) ==
    LET obj == unpack(str) IN
    IF obj.ok /\ convert(V, obj) THEN Some(obj.via) ELSE None

\* ---------------------------------------------------- the remote server
\* "h" is the hash the hash facade is bound to, "s" the set the set facade is
\* bound to and "r" the set of the facade passed as rhs to diff, inter and
\* union_.
Names == {"h", "s", "r"}

\* Raw byte strings that can sit on the server: the encodings the facades
\* write, plus strings written by facades of another type or by other
\* programs.
\* AliasField is the encoding of the key 1 followed by one more byte: unpack
\* reads the key 1 from it as it does from the encoding itself.
ForeignField == << 161, 97 >>
AliasField == << 1, 0 >>
ForeignVal == << 1 >>
ForeignMember == << 2 >>
RawFields == { pack("int", k) : k \in Keys } \cup { ForeignField, AliasField }
RawVals == { pack("string", v) : v \in Strs } \cup { ForeignVal }
RawMembers == { pack("string", v) : v \in Strs } \cup { ForeignMember }

EmptyMap == [x \in {} |-> << >>]
NoKey == [kind |-> "none", map |-> EmptyMap, mem |-> {}]
HashKey(m) == IF DOMAIN m = {} THEN NoKey
              ELSE [kind |-> "hash", map |-> m, mem |-> {}]
SetKey(S) == IF S = {} THEN NoKey
             ELSE [kind |-> "set", map |-> EmptyMap, mem |-> S]

Put(m, f, v) == [x \in DOMAIN m \cup {f} |-> IF x = f THEN v ELSE m[x]]
Drop(m, F) == [x \in DOMAIN m \ F |-> m[x]]
Range(seq) == { seq[i] : i \in 1..Len(seq) }

RECURSIVE SetToSeq(_)
SetToSeq(S) == IF S = {} THEN << >>
               ELSE LET x == CHOOSE y \in S : TRUE
                    IN << x >> \o SetToSeq(S \ {x})

\* cpp_redis::reply
IntegerReply(n) == [type |-> "integer", int |-> n, str |-> << >>, arr |-> << >>]
BulkReply(s) == [type |-> "bulk_string", int |-> 0, str |-> s, arr |-> << >>]
NullReply == [type |-> "null", int |-> 0, str |-> << >>, arr |-> << >>]
ErrorReply == [type |-> "error", int |-> 0, str |-> << >>, arr |-> << >>]
ArrayOf(strs) ==
    [type |-> "array", int |-> 0, str |-> << >>,
     arr |-> [i \in 1..Len(strs) |-> BulkReply(strs[i])]]
ArrayReply(S) ==
    [type |-> "array", int |-> 0, str |-> << >>,
     arr |-> [i \in 1..Cardinality(S) |-> BulkReply(SetToSeq(S)[i])]]

Result(r, d) == [reply |-> r, db |-> d]

hset(d, name, f, v) ==
    IF d[name].kind = "set" THEN Result(ErrorReply, d)
    ELSE Result(IntegerReply(IF f \in DOMAIN d[name].map THEN 0 ELSE 1),
                [d EXCEPT ![name] = HashKey(Put(d[name].map, f, v))])

hsetnx(d, name, f, v) ==
    IF d[name].kind = "set" THEN Result(ErrorReply, d)
    ELSE IF f \in DOMAIN d[name].map THEN Result(IntegerReply(0), d)
    ELSE Result(IntegerReply(1),
                [d EXCEPT ![name] = HashKey(Put(d[name].map, f, v))])

hget(d, name, f) ==
    IF d[name].kind = "set" THEN Result(ErrorReply, d)
    ELSE IF f \in DOMAIN d[name].map THEN Result(BulkReply(d[name].map[f]), d)
    ELSE Result(NullReply, d)

hexists(d, name, f) ==
    IF d[name].kind = "set" THEN Result(ErrorReply, d)
    ELSE Result(IntegerReply(IF f \in DOMAIN d[name].map THEN 1 ELSE 0), d)

\* Variant of HDEL that counts the fields and leaves them in place.
hdel_keeps_the_fields(d, name, fs) ==
    IF d[name].kind = "set" THEN Result(ErrorReply, d)
    ELSE IF Len(fs) = 0 THEN Result(ErrorReply, d)
    ELSE Result(IntegerReply(Cardinality(Range(fs) \cap DOMAIN d[name].map)), d)

hdel(d, name, fs) ==
    IF d[name].kind = "set" THEN Result(ErrorReply, d)
    ELSE IF Len(fs) = 0 THEN Result(ErrorReply, d)
    ELSE Result(IntegerReply(Cardinality(Range(fs) \cap DOMAIN d[name].map)),
                [d EXCEPT ![name] = HashKey(Drop(d[name].map, Range(fs)))])

hkeys(d, name) ==
    IF d[name].kind = "set" THEN Result(ErrorReply, d)
    ELSE Result(ArrayReply(DOMAIN d[name].map), d)

\* HVALS: the value of every field, in the order the server lists the fields.
hvals(d, name) ==
    IF d[name].kind = "set" THEN Result(ErrorReply, d)
    ELSE LET fs == SetToSeq(DOMAIN d[name].map)
         IN Result(ArrayOf([i \in 1..Len(fs) |-> d[name].map[fs[i]]]), d)

hlen(d, name) ==
    IF d[name].kind = "set" THEN Result(ErrorReply, d)
    ELSE Result(IntegerReply(Cardinality(DOMAIN d[name].map)), d)

sadd(d, name, ms) ==
    IF d[name].kind = "hash" THEN Result(ErrorReply, d)
    ELSE IF Len(ms) = 0 THEN Result(ErrorReply, d)
    ELSE Result(IntegerReply(Cardinality(Range(ms) \ d[name].mem)),
                [d EXCEPT ![name] = SetKey(d[name].mem \cup Range(ms))])

srem(d, name, ms) ==
    IF d[name].kind = "hash" THEN Result(ErrorReply, d)
    ELSE IF Len(ms) = 0 THEN Result(ErrorReply, d)
    ELSE Result(IntegerReply(Cardinality(Range(ms) \cap d[name].mem)),
                [d EXCEPT ![name] = SetKey(d[name].mem \ Range(ms))])

scard(d, name) ==
    IF d[name].kind = "hash" THEN Result(ErrorReply, d)
    ELSE Result(IntegerReply(Cardinality(d[name].mem)), d)

sismember(d, name, m) ==
    IF d[name].kind = "hash" THEN Result(ErrorReply, d)
    ELSE Result(IntegerReply(IF m \in d[name].mem THEN 1 ELSE 0), d)

smembers(d, name) ==
    IF d[name].kind = "hash" THEN Result(ErrorReply, d)
    ELSE Result(ArrayReply(d[name].mem), d)

\* SDIFF, SINTER and SUNION of the sets under keys, in the order given; a
\* key that holds a hash fails the command.
sdiff(d, keys) ==
    IF \E i \in 1..Len(keys) : d[keys[i]].kind = "hash"
    THEN Result(ErrorReply, d)
    ELSE Result(ArrayReply(d[keys[1]].mem
                    \ UNION { d[keys[i]].mem : i \in 2..Len(keys) }), d)

sinter(d, keys) ==
    IF \E i \in 1..Len(keys) : d[keys[i]].kind = "hash"
    THEN Result(ErrorReply, d)
    ELSE Result(ArrayReply({ m \in d[keys[1]].mem :
                    \A i \in 2..Len(keys) : m \in d[keys[i]].mem }), d)

sunion(d, keys) ==
    IF \E i \in 1..Len(keys) : d[keys[i]].kind = "hash"
    THEN Result(ErrorReply, d)
    ELSE Result(ArrayReply(UNION { d[keys[i]].mem : i \in 1..Len(keys) }), d)

\* ------------------------------------------------ hash<int, std::string>
KType == "int"
VType == "string"
Ret(r, d) == [ret |-> r, db |-> d]

\* Variant of hash::set that takes any integer reply for a new field.
hash_set_any_integer(d, name, key, value) ==
    LET key_str == encode_into_str(KType, key)
        val_str == encode_into_str(VType, value)
        res == hset(d, name, key_str, val_str)
        r == res.reply
        is_new_field == r.type = "integer"
    IN Ret(is_new_field, res.db)

hash_set(d, name, key, value) ==
    LET key_str == encode_into_str(KType, key)
        val_str == encode_into_str(VType, value)
        res == hset(d, name, key_str, val_str)
        r == res.reply
        is_new_field == r.type = "integer" /\ r.int = 1
    IN Ret(is_new_field, res.db)

\* Variant of hash::setnx that issues hset.
hash_setnx_overwrites(d, name, key, value) ==
    LET key_str == encode_into_str(KType, key)
        val_str == encode_into_str(VType, value)
        res == hset(d, name, key_str, val_str)
        r == res.reply
        is_new_field == r.type = "integer" /\ r.int = 1
    IN Ret(is_new_field, res.db)

hash_setnx(d, name, key, value) ==
    LET key_str == encode_into_str(KType, key)
        val_str == encode_into_str(VType, value)
        res == hsetnx(d, name, key_str, val_str)
        r == res.reply
        is_new_field == r.type = "integer" /\ r.int = 1
    IN Ret(is_new_field, res.db)

\* Variant of hash::del that takes any integer reply for a removal.
hash_del_any_integer(d, name, key) ==
    LET key_strs == << encode_into_str(KType, key) >>
        res == hdel(d, name, key_strs)
        r == res.reply
        deleted == r.type = "integer"
    IN Ret(deleted, res.db)

hash_del(d, name, key) ==
    LET key_strs == << encode_into_str(KType, key) >>
        res == hdel(d, name, key_strs)
        r == res.reply
        deleted == r.type = "integer" /\ r.int > 0
    IN Ret(deleted, res.db)

\* Variant of hash::exists that takes any integer reply for presence.
hash_exists_any_integer(d, name, key) ==
    LET key_str == encode_into_str(KType, key)
        res == hexists(d, name, key_str)
        r == res.reply
        is_present == r.type = "integer"
    IN Ret(is_present, res.db)

hash_exists(d, name, key) ==
    LET key_str == encode_into_str(KType, key)
        res == hexists(d, name, key_str)
        r == res.reply
        is_present == r.type = "integer" /\ r.int = 1
    IN Ret(is_present, res.db)

\* Variant of hash::get that yields a default V for a reply that is not a
\* bulk string.
hash_get_default_on_null(d, name, key) ==
    LET key_str == encode_into_str(KType, key)
        res == hget(d, name, key_str)
        r == res.reply
        value_opt == IF r.type = "bulk_string"
                     THEN decode_from_str(VType, r.str) ELSE Some(<< >>)
    IN Ret(value_opt, res.db)

hash_get(d, name, key) ==
    LET key_str == encode_into_str(KType, key)
        res == hget(d, name, key_str)
        r == res.reply
        value_opt == IF r.type = "bulk_string"
                     THEN decode_from_str(VType, r.str) ELSE None
    IN Ret(value_opt, res.db)

\* Variant of the array callback that starts at the second sub-reply.
DecodeArray_skip_first(V, r) ==
    IF r.type = "array"
    THEN { decode_from_str(V, r.arr[i].str)[1] :
             i \in { j \in 2..Len(r.arr) :
                       /\ r.arr[j].type = "bulk_string"
                       /\ decode_from_str(V, r.arr[j].str) # None } }
    ELSE {}

\* Variant of the array callback that inserts a default-constructed element
\* for a string that does not decode.
DecodeArray_default_on_failure(V, r) ==
    IF r.type = "array"
    THEN { IF decode_from_str(V, r.arr[i].str) # None
           THEN decode_from_str(V, r.arr[i].str)[1] ELSE << >> :
             i \in { j \in 1..Len(r.arr) : r.arr[j].type = "bulk_string" } }
    ELSE {}

\* The decoded elements of an array reply: sub-replies that are not bulk
\* strings and strings that do not decode are skipped, equal values
\* collapse in the unordered_set.
DecodeArray(V, r) ==
    IF r.type = "array"
    THEN { decode_from_str(V, r.arr[i].str)[1] :
             i \in { j \in 1..Len(r.arr) :
                       /\ r.arr[j].type = "bulk_string"
                       /\ decode_from_str(V, r.arr[j].str) # None } }
    ELSE {}

hash_keys(d, name) ==
    LET res == hkeys(d, name)
    IN Ret(DecodeArray(KType, res.reply), res.db)

\* Variant of hash::vals that collects the values in an unordered_set, as
\* keys() does.
hash_vals_without_repeats(d, name) ==
    LET res == hvals(d, name)
    IN Ret(SetToSeq(DecodeArray(VType, res.reply)), res.db)

hash_vals(d, name) ==
    LET res == hvals(d, name)
        r == res.reply
        Decodes(sub_r) == /\ sub_r.type = "bulk_string"
                          /\ decode_from_str(VType, sub_r.str) # None
        kept == IF r.type = "array" THEN SelectSeq(r.arr, Decodes) ELSE << >>
        values == [i \in 1..Len(kept) |-> decode_from_str(VType, kept[i].str)[1]]
    IN Ret(values, res.db)

\* Variant of hash::len that counts the keys keys() returns.
hash_len_counts_decoded_keys(d, name) ==
    LET res == hkeys(d, name)
    IN Ret(Cardinality(DecodeArray(KType, res.reply)), res.db)

hash_len(d, name) ==
    LET res == hlen(d, name)
        r == res.reply
        length == IF r.type = "integer" THEN r.int ELSE 0
    IN Ret(length, res.db)

\* ------------------------------------------------------ set<std::string>
TType == "string"

RECURSIVE str_vectorize_impl(_, _)
str_vectorize_impl(vec, vs) ==
    IF Len(vs) = 0 THEN vec
    ELSE str_vectorize_impl(Append(vec, encode_into_str(TType, Head(vs))),
                            Tail(vs))

str_vectorize(vs) == str_vectorize_impl(<< >>, vs)

\* Variant of add_impl that returns member_strs.size().
add_impl_counts_arguments(d, name, member_strs) ==
    LET res == sadd(d, name, member_strs)
        r == res.reply
        added_count == IF r.type = "integer" THEN Len(member_strs) ELSE 0
    IN Ret(added_count, res.db)

\* Variant of add_impl that takes the members for added when the reply is
\* not an integer.
add_impl_assumes_success(d, name, member_strs) ==
    LET res == sadd(d, name, member_strs)
        r == res.reply
        added_count == IF r.type = "integer" THEN r.int ELSE Len(member_strs)
    IN Ret(added_count, res.db)

add_impl(d, name, member_strs) ==
    LET res == sadd(d, name, member_strs)
        r == res.reply
        added_count == IF r.type = "integer" THEN r.int ELSE 0
    IN Ret(added_count, res.db)

\* Variant of rem_impl that returns member_strs.size().
rem_impl_counts_arguments(d, name, member_strs) ==
    LET res == srem(d, name, member_strs)
        r == res.reply
        remove_count == IF r.type = "integer" THEN Len(member_strs) ELSE 0
    IN Ret(remove_count, res.db)

rem_impl(d, name, member_strs) ==
    LET res == srem(d, name, member_strs)
        r == res.reply
        remove_count == IF r.type = "integer" THEN r.int ELSE 0
    IN Ret(remove_count, res.db)

\* add(member, members...)
set_add(d, name, members) ==
    add_impl(d, name, str_vectorize(members))

\* add(const std::vector<T> &)
set_add_vector(d, name, members) ==
    LET member_strs == [i \in 1..Len(members)
                          |-> encode_into_str(TType, members[i])]
    IN add_impl(d, name, member_strs)

\* add(begin_it, end_it)
set_add_range(d, name, range) == set_add_vector(d, name, range)

\* rem(member, members...)
set_rem(d, name, members) ==
    rem_impl(d, name, str_vectorize(members))

\* rem(const std::vector<T> &)
set_rem_vector(d, name, members) ==
    LET member_strs == [i \in 1..Len(members)
                          |-> encode_into_str(TType, members[i])]
    IN rem_impl(d, name, member_strs)

\* rem(begin_it, end_it)
set_rem_range(d, name, range) == set_rem_vector(d, name, range)

\* Variant of set::card that reads the reply as a flag, the way is_member
\* does.
set_card_as_flag(d, name) ==
    LET res == scard(d, name)
        r == res.reply
        cardinality == IF r.type = "integer" /\ r.int = 1 THEN 1 ELSE 0
    IN Ret(cardinality, res.db)

set_card(d, name) ==
    LET res == scard(d, name)
        r == res.reply
        cardinality == IF r.type = "integer" THEN r.int ELSE 0
    IN Ret(cardinality, res.db)

\* Variant of set::is_member that takes any integer reply for membership.
set_is_member_any_integer(d, name, member) ==
    LET member_str == encode_into_str(TType, member)
        res == sismember(d, name, member_str)
        r == res.reply
        is_member_flag == r.type = "integer"
    IN Ret(is_member_flag, res.db)

set_is_member(d, name, member) ==
    LET member_str == encode_into_str(TType, member)
        res == sismember(d, name, member_str)
        r == res.reply
        is_member_flag == r.type = "integer" /\ r.int = 1
    IN Ret(is_member_flag, res.db)

set_members(d, name) ==
    LET res == smembers(d, name)
    IN Ret(DecodeArray(TType, res.reply), res.db)

\* Variant of set::diff that names rhs first.
set_diff_rhs_first(d, name, rhs_name) ==
    LET res == sdiff(d, << rhs_name, name >>)
    IN Ret(DecodeArray(TType, res.reply), res.db)

set_diff(d, name, rhs_name) ==
    LET res == sdiff(d, << name, rhs_name >>)
    IN Ret(DecodeArray(TType, res.reply), res.db)

\* Variant of set::inter that issues sunion.
set_inter_issues_sunion(d, name, rhs_name) ==
    LET res == sunion(d, << name, rhs_name >>)
    IN Ret(DecodeArray(TType, res.reply), res.db)

set_inter(d, name, rhs_name) ==
    LET res == sinter(d, << name, rhs_name >>)
    IN Ret(DecodeArray(TType, res.reply), res.db)

\* Variant of set::union_ that has the server store the union under name
\* (sunionstore).
set_union_stores_the_result(d, name, rhs_name) ==
    LET res == sunion(d, << name, rhs_name >>)
    IN Ret(DecodeArray(TType, res.reply),
           IF d[name].kind # "hash" /\ d[rhs_name].kind # "hash"
           THEN [res.db EXCEPT ![name] = SetKey(d[name].mem \cup d[rhs_name].mem)]
           ELSE res.db)

set_union_(d, name, rhs_name) ==
    LET res == sunion(d, << name, rhs_name >>)
    IN Ret(DecodeArray(TType, res.reply), res.db)

\* ------------------------------------------------------------------ state
VARIABLES db, pc, last, pre, rt, ks, key_vals, mems_set, ext, snaps,
          written, added, balance, conn

vars == << db, pc, last, pre, rt, ks, key_vals, mems_set, ext, snaps,
          written, added, balance, conn >>

\* The typed view of the hash a hash<int, std::string> facade is bound to:
\* the fields whose name is the encoding of a key and whose bytes are the
\* encoding of a value.
View(m) ==
    [k \in { x \in Keys :
               /\ pack(KType, x) \in DOMAIN m
               /\ \E v \in Strs : m[pack(KType, x)] = pack(VType, v) }
       |-> CHOOSE v \in Strs : m[pack(KType, k)] = pack(VType, v)]

\* The history of the calls on a name, kept beside the server: written is the
\* set of keys given to set or setnx and not given to del since, added the
\* set of values given to add and not given to rem or cleared since.  What a
\* name holds when a facade is bound to it was put there by earlier calls,
\* so both start as the typed contents of the name.
WrittenIn(d) == { k \in Keys : pack(KType, k) \in DOMAIN d["h"].map }
AddedIn(d) == { v \in Strs : pack(TType, v) \in d["s"].mem }

\* balance is the number of set and setnx calls that returned true less the
\* number of del calls that returned true; like written it starts as the
\* number of typed keys the name holds.
BalanceAfter(op, ret) ==
    IF op \in { "set", "setnx" } THEN (IF ret THEN balance + 1 ELSE balance)
    ELSE IF op = "del" THEN (IF ret THEN balance - 1 ELSE balance)
    ELSE balance

WrittenAfter(op, key) ==
    IF op \in { "set", "setnx" } THEN written \cup { key }
    ELSE IF op = "del" THEN written \ { key }
    ELSE written

AddedAfter(op, args) ==
    IF op = "add" THEN added \cup Range(args)
    ELSE IF op = "rem" THEN added \ Range(args)
    ELSE added

Call(op, key, val, args, ret) ==
    [op |-> op, key |-> key, val |-> val, args |-> args, ret |-> ret]
NoCall == Call("none", 0, << >>, << >>, 0)
\* The shared connection with nothing queued on it and no call under way.
NoConn == [queue |-> << >>, sub |-> [phase |-> "none"]]
\* A composite call that has not returned yet.
Running(op, fetched) == Call("running", 0, << >>, fetched, op)

\* The server outlives the program: a facade may be bound to a name that
\* already holds fields, including ones written under other types, or a
\* value of the other kind.
InitHashes ==
    { HashKey(m) : m \in UNION { [F -> RawVals] : F \in SUBSET RawFields } }
        \cup { SetKey({ ForeignMember }) }

InitCommon ==
    /\ pc = "idle"
    /\ last = NoCall
    /\ rt = 0
    /\ ks = {}
    /\ key_vals = EmptyMap
    /\ mems_set = {}
    /\ ext = 0
    /\ snaps = << >>
    /\ balance = Cardinality(WrittenIn(db))
    /\ conn = NoConn

InitHash ==
    /\ db \in { [n \in Names |-> IF n = "h" THEN x ELSE NoKey] : x \in InitHashes }
    /\ pre = db
    /\ written = WrittenIn(db)
    /\ added = AddedIn(db)
    /\ InitCommon

\* last is the most recent call with its result, or Running while a composite
\* call is between round trips; pre is the server as the most recent round
\* trip found it (after a command of another client: as that command left
\* it).
\* The locals of a call (ks, key_vals) are empty outside the call.
\* A call that is a single round trip: the command, then sync_commit, during
\* which the reply callback runs.
Primitive(op, key, val, args, res) ==
    /\ pc = "idle"
    /\ db' = res.db
    /\ pre' = db
    /\ last' = Call(op, key, val, args, res.ret)
    /\ rt' = 1
    /\ ks' = {}
    /\ key_vals' = EmptyMap
    /\ mems_set' = {}
    /\ ext' = 0
    /\ snaps' = << >>
    /\ written' = WrittenAfter(op, key)
    /\ added' = AddedAfter(op, args)
    /\ balance' = BalanceAfter(op, res.ret)
    /\ UNCHANGED << pc, conn >>

HashSet == \E k \in Keys, v \in Strs :
    Primitive("set", k, v, << >>, hash_set(db, "h", k, v))
HashSetnx == \E k \in Keys, v \in Strs :
    Primitive("setnx", k, v, << >>, hash_setnx(db, "h", k, v))
HashDel == \E k \in Keys :
    Primitive("del", k, << >>, << >>, hash_del(db, "h", k))
HashExists == \E k \in Keys :
    Primitive("exists", k, << >>, << >>, hash_exists(db, "h", k))
HashGet == \E k \in Keys :
    Primitive("get", k, << >>, << >>, hash_get(db, "h", k))
HashKeys == Primitive("keys", 0, << >>, << >>, hash_keys(db, "h"))
HashLen == Primitive("len", 0, << >>, << >>, hash_len(db, "h"))
HashVals == Primitive("vals", 0, << >>, << >>, hash_vals(db, "h"))

\* key_vals(): keys(), then get(k) for every k of the result in the
\* unordered_set's iteration order, then return.
HashKeyValsKeys ==
    /\ pc = "idle"
    /\ LET res == hash_keys(db, "h") IN
       /\ db' = res.db
       /\ pre' = db
       /\ rt' = 1
       /\ ks' = res.ret
       /\ key_vals' = EmptyMap
       /\ ext' = 0
       /\ snaps' = << View(db["h"].map) >>
       /\ UNCHANGED << mems_set, written, added, balance, conn >>
       /\ IF res.ret = {}
          THEN pc' = "idle" /\ last' = Call("key_vals", 0, << >>, {}, EmptyMap)
          ELSE pc' = "key_vals" /\ last' = Running("key_vals", res.ret)

\* Variant of the get step of key_vals that issues no commit of its own.
HashKeyValsGet_without_commit ==
    /\ pc = "key_vals"
    /\ \E k \in ks :
         LET res == hash_get(db, "h", k)
             kv == IF res.ret # None THEN Put(key_vals, k, res.ret[1])
                   ELSE key_vals
         IN /\ db' = res.db
            /\ pre' = db
            /\ rt' = rt
            /\ ks' = ks \ {k}
            /\ UNCHANGED << mems_set, ext, snaps, written, added, balance, conn >>
            /\ IF ks' = {}
               THEN /\ key_vals' = EmptyMap
                    /\ pc' = "idle"
                    /\ last' = Call("key_vals", 0, << >>, last.args, kv)
               ELSE key_vals' = kv /\ UNCHANGED << pc, last >>

HashKeyValsGet ==
    /\ pc = "key_vals"
    /\ \E k \in ks :
         LET res == hash_get(db, "h", k)
             kv == IF res.ret # None THEN Put(key_vals, k, res.ret[1])
                   ELSE key_vals
         IN /\ db' = res.db
            /\ pre' = db
            /\ rt' = rt + 1
            /\ ks' = ks \ {k}
            /\ UNCHANGED << mems_set, ext, snaps, written, added, balance, conn >>
            /\ IF ks' = {}
               THEN /\ key_vals' = EmptyMap
                    /\ pc' = "idle"
                    /\ last' = Call("key_vals", 0, << >>, last.args, kv)
               ELSE key_vals' = kv /\ UNCHANGED << pc, last >>

NextHash ==
    \/ HashSet
    \/ HashSetnx
    \/ HashDel
    \/ HashExists
    \/ HashGet
    \/ HashKeys
    \/ HashLen
    \/ HashVals
    \/ HashKeyValsKeys
    \/ HashKeyValsGet

SpecHash == InitHash /\ [][NextHash]_vars

\* ------------------------------------------------ actions of set<string>
InitSets ==
    { SetKey(S) : S \in SUBSET RawMembers }
        \cup { HashKey([f \in { ForeignField } |-> ForeignVal]) }

InitSet ==
    /\ db \in { [n \in Names |-> IF n = "s" THEN x ELSE NoKey] : x \in InitSets }
    /\ pre = db
    /\ written = WrittenIn(db)
    /\ added = AddedIn(db)
    /\ InitCommon

\* Argument lists: the variadic forms take at least one member, a vector or
\* an iterator range may be empty.
\* The values is_member is asked about: the values that can be added and
\* their upper-case spellings, which are never added.
ToUpper(str) == [i \in 1..Len(str) |-> str[i] - 32]
Probes == Strs \cup { ToUpper(v) : v \in Strs }

ArgLists == UNION { [1..n -> Strs] : n \in 1..MaxArgs }
VecLists == ArgLists \cup { << >> }

SetAdd == \E ms \in ArgLists :
    Primitive("add", 0, << >>, ms, set_add(db, "s", ms))
SetAddRange == \E ms \in VecLists :
    Primitive("add", 0, << >>, ms, set_add_range(db, "s", ms))
SetAddVector == \E ms \in VecLists :
    Primitive("add", 0, << >>, ms, set_add_vector(db, "s", ms))
SetRem == \E ms \in ArgLists :
    Primitive("rem", 0, << >>, ms, set_rem(db, "s", ms))
SetRemRange == \E ms \in VecLists :
    Primitive("rem", 0, << >>, ms, set_rem_range(db, "s", ms))
SetRemVector == \E ms \in VecLists :
    Primitive("rem", 0, << >>, ms, set_rem_vector(db, "s", ms))
SetCard == Primitive("card", 0, << >>, << >>, set_card(db, "s"))
SetIsMember == \E m \in Probes :
    Primitive("is_member", 0, m, << >>, set_is_member(db, "s", m))
SetMembers == Primitive("members", 0, << >>, << >>, set_members(db, "s"))

\* clear(): members(), then rem() of the vector collected from the result.
SetClearMembers ==
    /\ pc = "idle"
    /\ LET res == set_members(db, "s") IN
       /\ db' = res.db
       /\ pre' = db
       /\ rt' = 1
       /\ mems_set' = res.ret
       /\ ext' = 0
       /\ snaps' = << db["s"].mem >>
       /\ pc' = "clear"
       /\ last' = Running("clear", res.ret)
       /\ UNCHANGED << ks, key_vals, written, added, balance, conn >>

\* Variant of the second step of clear that deletes the whole remote set.
SetClearRem_deletes_the_key ==
    /\ pc = "clear"
    /\ db' = [db EXCEPT !["s"] = NoKey]
    /\ pre' = db
    /\ rt' = rt + 1
    /\ mems_set' = {}
    /\ pc' = "idle"
    /\ last' = Call("clear", 0, << >>, mems_set, Cardinality(db["s"].mem))
    /\ added' = {}
    /\ UNCHANGED << ks, key_vals, ext, snaps, written, balance, conn >>

SetClearRem ==
    /\ pc = "clear"
    /\ LET mems == SetToSeq(mems_set)
           res == set_rem_vector(db, "s", mems)
       IN /\ db' = res.db
          /\ pre' = db
          /\ rt' = rt + 1
          /\ mems_set' = {}
          /\ pc' = "idle"
          /\ last' = Call("clear", 0, << >>, mems_set, res.ret)
          /\ added' = {}
          /\ UNCHANGED << ks, key_vals, ext, snaps, written, balance, conn >>

NextSet ==
    \/ SetAdd
    \/ SetAddRange
    \/ SetAddVector
    \/ SetRem
    \/ SetRemRange
    \/ SetRemVector
    \/ SetCard
    \/ SetIsMember
    \/ SetMembers
    \/ SetClearMembers
    \/ SetClearRem

SpecSet == InitSet /\ [][NextSet]_vars

\* diff, inter and union_ of the set "s" with the set of the facade rhs.
SetDiff == Primitive("diff", 0, << >>, << >>, set_diff(db, "s", "r"))
SetInter == Primitive("inter", 0, << >>, << >>, set_inter(db, "s", "r"))
SetUnion == Primitive("union_", 0, << >>, << >>, set_union_(db, "s", "r"))

\* The facade rhs is a set<Tx> of its own; the program fills it with add and
\* empties it with rem, one member per call here.
Values(Tx) == IF Tx = "int" THEN Keys ELSE Strs
RhsAdd(Tx) == \E x \in Values(Tx) :
    Primitive("rhs.add", 0, << >>, << x >>,
              add_impl(db, "r", << encode_into_str(Tx, x) >>))
RhsRem(Tx) == \E x \in Values(Tx) :
    Primitive("rhs.rem", 0, << >>, << x >>,
              rem_impl(db, "r", << encode_into_str(Tx, x) >>))

\* A program whose facades are bound to names nothing has been stored under
\* and that is the only client of them: whatever the remote collections
\* hold is then there by a call of these facades.
InitOwn ==
    /\ db = [n \in Names |-> NoKey]
    /\ pre = db
    /\ written = {}
    /\ added = {}
    /\ InitCommon

SpecHashOwn == InitOwn /\ [][NextHash]_vars

\* rhs is a set<T> like this.
RhsAddT == RhsAdd(TType)
RhsRemT == RhsRem(TType)

NextSetOwn ==
    \/ NextSet
    \/ SetDiff
    \/ SetInter
    \/ SetUnion
    \/ RhsAddT
    \/ RhsRemT

SpecSetOwn == InitOwn /\ [][NextSetOwn]_vars

\* rhs is a set<int>, this a set<std::string> on a name that may hold
\* members already.
XType == "int"
RhsAddX == RhsAdd(XType)
RhsRemX == RhsRem(XType)

NextSetMixed ==
    \/ NextSet
    \/ SetDiff
    \/ SetInter
    \/ SetUnion
    \/ RhsAddX
    \/ RhsRemX

SpecSetMixed == InitSet /\ [][NextSetMixed]_vars

\* The facades bound to names that hold a value of the other kind: the hash
\* facade to a name that holds a set, the set facade to a name that holds a
\* hash.  The server answers every command of theirs with an error reply.
InitWrongType ==
    /\ db = [n \in Names |->
               IF n = "h" THEN SetKey({ ForeignMember })
               ELSE IF n = "s" THEN HashKey([f \in { ForeignField } |-> ForeignVal])
               ELSE NoKey]
    /\ pre = db
    /\ written = {}
    /\ added = {}
    /\ InitCommon

\* key_vals() gets no key from keys() here and returns after its first round
\* trip.
NextWrongType ==
    \/ HashSet
    \/ HashSetnx
    \/ HashDel
    \/ HashExists
    \/ HashGet
    \/ HashKeys
    \/ HashLen
    \/ HashVals
    \/ HashKeyValsKeys
    \/ NextSet
    \/ SetDiff
    \/ SetInter
    \/ SetUnion

SpecWrongType == InitWrongType /\ [][NextWrongType]_vars

\* ------------------------------------------- other clients of the server
\* The other clients of the hash considered here are facades of the same
\* types: they write encodings of keys and values.
TypedFields == { pack(KType, k) : k \in Keys }
TypedVals == { pack(VType, v) : v \in Strs }

InitHashConc ==
    /\ db \in { [n \in Names |-> IF n = "h" THEN HashKey(m) ELSE NoKey] :
                 m \in UNION { [F -> TypedVals] : F \in SUBSET TypedFields } }
    /\ pre = db
    /\ written = WrittenIn(db)
    /\ added = AddedIn(db)
    /\ InitCommon

\* A command of another client on the same remote collection.  At most
\* MaxExt of them are considered between the round trips of one composite
\* call; snaps lists the contents the collection had during the call, from
\* the first round trip on, each once.  The other clients are facades too,
\* so their calls are part of the history: w and a are the values of
\* written and added they leave.  A command that leaves the server as it
\* was is no step: no call of this client can tell it happened.
Other(d, contents, w, a) ==
    /\ d # db
    /\ db' = d
    /\ pre' = d
    /\ written' = w
    /\ added' = a
    /\ balance' = Cardinality(w)
    /\ IF pc = "idle"
       THEN /\ last' = Call("other", 0, << >>, << >>, 0)
            /\ rt' = 0
            /\ ext' = 0
            /\ snaps' = << >>
       ELSE /\ ext < MaxExt
            /\ ext' = ext + 1
            /\ snaps' = IF contents \in Range(snaps) THEN snaps
                        ELSE Append(snaps, contents)
            /\ UNCHANGED << last, rt >>
    /\ UNCHANGED << pc, ks, key_vals, mems_set, conn >>

OtherHSet == \E f \in TypedFields, v \in TypedVals :
    LET d == hset(db, "h", f, v).db
    IN Other(d, View(d["h"].map), WrittenIn(d), added)
OtherHDel == \E f \in TypedFields :
    LET d == hdel(db, "h", << f >>).db
    IN Other(d, View(d["h"].map), WrittenIn(d), added)
OtherSAdd == \E m \in RawMembers :
    LET d == sadd(db, "s", << m >>).db
    IN Other(d, d["s"].mem, written, AddedIn(d))
OtherSRem == \E m \in RawMembers :
    LET d == srem(db, "s", << m >>).db
    IN Other(d, d["s"].mem, written, AddedIn(d))

NextHashConc ==
    \/ HashKeyValsKeys
    \/ HashKeyValsGet
    \/ OtherHSet
    \/ OtherHDel

SpecHashConc == InitHashConc /\ [][NextHashConc]_vars

NextSetConc ==
    \/ SetClearMembers
    \/ SetClearRem
    \/ OtherSAdd
    \/ OtherSRem

SpecSetConc == InitSet /\ [][NextSetConc]_vars

\* ------------------------------------------------- the codec on its own
\* The values the codec is applied to, as int or as std::string: the ints
\* of the three one- and two-byte formats, and the strings of at most
\* MaxStrLen bytes.
CodecValues(V) ==
    IF V = "int" THEN -32..255
    ELSE UNION { [1..n -> {97, 98}] : n \in 0..MaxStrLen }

InitCodec ==
    /\ db = [n \in Names |-> NoKey]
    /\ pre = db
    /\ written = {}
    /\ added = {}
    /\ pc = "idle"
    /\ \E V \in { "int", "string" } : \E v \in CodecValues(V) :
         last = Call("value", 0, v, << V >>, << >>)
    /\ rt = 0
    /\ ks = {}
    /\ key_vals = EmptyMap
    /\ mems_set = {}
    /\ ext = 0
    /\ snaps = << >>
    /\ balance = 0
    /\ conn = NoConn

\* encode_into_str<V>(value): the packed bytes as a std::string.
EncodeIntoStr ==
    /\ last.op = "value"
    /\ last' = Call("encode_into_str", 0, last.val, last.args,
                     encode_into_str(last.args[1], last.val))
    /\ UNCHANGED << db, pc, pre, rt, ks, key_vals, mems_set, ext, snaps,
                    written, added, balance, conn >>

\* decode_from_str<V>(str) of the bytes just produced, as the type they were
\* written under or as the other one.
DecodeFromStr ==
    /\ last.op = "encode_into_str"
    /\ \E V \in { "int", "string" } :
         last' = Call("decode_from_str", last.ret, last.val,
                      << last.args[1], V >>, decode_from_str(V, last.ret))
    /\ UNCHANGED << db, pc, pre, rt, ks, key_vals, mems_set, ext, snaps,
                    written, added, balance, conn >>

NextCodec ==
    \/ EncodeIntoStr
    \/ DecodeFromStr

SpecCodec == InitCodec /\ [][NextCodec]_vars

\* ------------------------------------------- a program that only reads
\* The facades are bound to names that hold anything, and the program calls
\* only the operations that ask the server for something.
InitReadOnly ==
    /\ \/ db \in { [n \in Names |-> IF n = "h" THEN x ELSE NoKey] :
                       x \in InitHashes }
       \/ db \in { [n \in Names |-> IF n = "s" THEN x
                                     ELSE IF n = "r" THEN y ELSE NoKey] :
                       x \in InitSets, y \in InitSets }
    /\ pre = db
    /\ written = WrittenIn(db)
    /\ added = AddedIn(db)
    /\ InitCommon

NextReadOnly ==
    \/ HashExists
    \/ HashGet
    \/ HashKeys
    \/ HashVals
    \/ HashLen
    \/ HashKeyValsKeys
    \/ HashKeyValsGet
    \/ SetCard
    \/ SetIsMember
    \/ SetMembers
    \/ SetDiff
    \/ SetInter
    \/ SetUnion

SpecReadOnly == InitReadOnly /\ [][NextReadOnly]_vars

\* ------------------------------------------ a set holding any raw members
\* A raw member that is the encoding of a value followed by one more byte:
\* it decodes as that value and is not its encoding.
AliasMember == pack(TType, << 97 >>) \o << 0 >>

InitSetRaw ==
    /\ db \in { [n \in Names |-> IF n = "s" THEN SetKey(S) ELSE NoKey] :
                    S \in SUBSET (RawMembers \cup { AliasMember }) }
    /\ pre = db
    /\ written = WrittenIn(db)
    /\ added = AddedIn(db)
    /\ InitCommon

NextSetRaw ==
    \/ SetCard
    \/ SetIsMember
    \/ SetMembers
    \/ SetClearMembers
    \/ SetClearRem

SpecSetRaw == InitSetRaw /\ [][NextSetRaw]_vars

\* ---------------------------------------------- connecting (connection.h)
DEFAULT_HOST == "127.0.0.1"
DEFAULT_PORT == 6379

Ok(v) == [raised |-> FALSE, is_ok |-> TRUE, value |-> v]
Err(e) == [raised |-> FALSE, is_ok |-> FALSE, value |-> e]

\* Variant of make_and_connect without the try block: the exception leaves
\* the function.
make_and_connect_without_try(host, port, outcome) ==
    LET client == [is_connected |-> FALSE, host |-> "", port |-> 0]
        raised == [raised |-> TRUE, is_ok |-> FALSE, value |-> "std::exception"]
    IN IF outcome = "create_throws" THEN raised
       ELSE IF outcome = "connect_throws" THEN raised
       ELSE Ok([client EXCEPT !.is_connected = TRUE,
                              !.host = host, !.port = port])

make_and_connect(host, port, outcome) ==
    LET client == [is_connected |-> FALSE, host |-> "", port |-> 0]
    IN IF outcome = "create_throws" THEN Err("std::exception")
       ELSE IF outcome = "connect_throws" THEN Err("std::exception")
       ELSE Ok([client EXCEPT !.is_connected = TRUE,
                              !.host = host, !.port = port])

\* The program has no client yet.
InitConnect ==
    /\ db = [n \in Names |-> NoKey]
    /\ pre = db
    /\ written = {}
    /\ added = {}
    /\ pc = "unconnected"
    /\ last = NoCall
    /\ rt = 0
    /\ ks = {}
    /\ key_vals = EmptyMap
    /\ mems_set = {}
    /\ ext = 0
    /\ snaps = << >>
    /\ balance = 0
    /\ conn = NoConn

\* A call of make_and_connect, for the server's address or another, and
\* what the underlying client does in it: its creation throws, connect throws
\* (cpp_redis throws redis_error, a std::exception, when the connection
\* cannot be made), or connect returns with the connection made.  Only the
\* server's own address can be connected to, and only while the server is
\* up.  With the client returned the program goes on to use a hash, without
\* one it may try again.
MakeAndConnect ==
    /\ pc = "unconnected"
    /\ \E host \in { DEFAULT_HOST, "10.0.0.1" },
          port \in { DEFAULT_PORT, DEFAULT_PORT + 1 } :
         \E outcome \in { "create_throws", "connect_throws" }
                 \cup (IF host = DEFAULT_HOST /\ port = DEFAULT_PORT
                       THEN { "connects" } ELSE { }) :
            LET res == make_and_connect(host, port, outcome) IN
            /\ last' = Call("make_and_connect", host, port, << outcome >>, res)
            /\ pc' = IF ~res.raised /\ res.is_ok THEN "idle" ELSE "unconnected"
    /\ UNCHANGED << db, pre, rt, ks, key_vals, mems_set, ext, snaps,
                    written, added, balance, conn >>

NextConnect ==
    \/ MakeAndConnect
    \/ NextHash

SpecConnect == InitConnect /\ [][NextConnect]_vars

\* ------------------------------------- callers sharing one client handle
\* A facade operation, step by step: the command is queued on the client
\* together with its reply callback (client_ptr->hset(...) and the like),
\* then sync_commit sends what is queued on the client, by whichever caller,
\* and returns when the replies have come and their callbacks have run;
\* then the operation returns what its callback left in its local variable.
\* Another caller holding the same client_ptr queues commands and commits
\* between these steps.  The history variables are not kept here.

\* The operation op of the facades applied to the server d: the command it
\* issues and what its callback makes of the reply.
Facade(op, key, val, args, d) ==
    CASE op = "set" -> hash_set(d, "h", key, val)
      [] op = "setnx" -> hash_setnx(d, "h", key, val)
      [] op = "del" -> hash_del(d, "h", key)
      [] op = "exists" -> hash_exists(d, "h", key)
      [] op = "get" -> hash_get(d, "h", key)
      [] op = "keys" -> hash_keys(d, "h")
      [] op = "vals" -> hash_vals(d, "h")
      [] op = "len" -> hash_len(d, "h")
      [] op = "add" -> set_add(d, "s", args)
      [] op = "rem" -> set_rem(d, "s", args)
      [] op = "rem_vector" -> set_rem_vector(d, "s", args)
      [] op = "card" -> set_card(d, "s")
      [] op = "is_member" -> set_is_member(d, "s", val)
      [] op = "members" -> set_members(d, "s")
      [] op = "diff" -> set_diff(d, "s", "r")
      [] op = "inter" -> set_inter(d, "s", "r")
      [] op = "union_" -> set_union_(d, "s", "r")

\* What the local variable of op holds before the callback runs.
Default(op) ==
    CASE op \in { "set", "setnx", "del", "exists", "is_member" } -> FALSE
      [] op = "get" -> None
      [] op = "vals" -> << >>
      [] op \in { "len", "add", "rem", "rem_vector", "card" } -> 0
      [] OTHER -> {}

Command(who, op, key, val, args) ==
    [who |-> who, op |-> op, key |-> key, val |-> val, args |-> args]

\* The server executes the queued commands in order and each reply is
\* handed to its callback.
RECURSIVE Flush(_, _, _)
Flush(queue, d, sub) ==
    IF queue = << >> THEN [db |-> d, sub |-> sub]
    ELSE LET c == Head(queue)
             res == Facade(c.op, c.key, c.val, c.args, d)
         IN Flush(Tail(queue), res.db,
                  IF c.who = "this"
                  THEN [sub EXCEPT !.ran = TRUE, !.ret = res.ret, !.before = d]
                  ELSE sub)

\* Variant of sync_commit that returns after the first reply.
sync_commit_first_reply_only(c, d) ==
    IF c.queue = << >> THEN [db |-> d, conn |-> c]
    ELSE LET f == Flush(<< Head(c.queue) >>, d, c.sub)
         IN [db |-> f.db, conn |-> [queue |-> Tail(c.queue), sub |-> f.sub]]

sync_commit(c, d) ==
    LET f == Flush(c.queue, d, c.sub)
    IN [db |-> f.db, conn |-> [queue |-> << >>, sub |-> f.sub]]

\* The command of a call is queued.  conn.sub is this caller's operation
\* under way: the commands it has issued, the commits it has made, whether
\* its callback has run, its local variable and the server as its command
\* found it.
Send(c, next_pc, running) ==
    /\ conn.sub.phase = "none"
    /\ conn' = [queue |-> Append(conn.queue, c),
                sub |-> [phase |-> "queued", op |-> c.op, key |-> c.key,
                         val |-> c.val, args |-> c.args, cmds |-> 1,
                         commits |-> 0, ran |-> FALSE,
                         ret |-> Default(c.op), before |-> db]]
    /\ pc' = next_pc
    /\ last' = running
    /\ rt' = IF pc = "idle" THEN 0 ELSE rt
    /\ UNCHANGED << db, pre, ks, key_vals, mems_set, ext, snaps,
                    written, added, balance >>

\* The primitive calls made here: every operation, on the keys 1 and 2 and
\* the value "a".
SendPrimitive ==
    \E c \in { Command("this", "set", k, << 97 >>, << >>) : k \in { 1, 2 } }
        \cup { Command("this", op, 1, << 97 >>, << >>) :
                 op \in { "setnx", "del", "exists", "get", "is_member" } }
        \cup { Command("this", op, 0, << >>, << >>) :
                 op \in { "keys", "vals", "len", "card", "members",
                          "diff", "inter", "union_" } }
        \cup { Command("this", op, 0, << >>, << << 97 >> >>) :
                 op \in { "add", "rem" } } :
    /\ pc = "idle"
    /\ Send(c, "idle", Running(c.op, << >>))
SendKeyValsKeys ==
    /\ pc = "idle"
    /\ Send(Command("this", "keys", 0, << >>, << >>), "key_vals.keys",
            Running("key_vals", << >>))
SendKeyValsGet == \E k \in ks :
    /\ pc = "key_vals"
    /\ Send(Command("this", "get", k, << >>, << >>), "key_vals", last)
SendClearMembers ==
    /\ pc = "idle"
    /\ Send(Command("this", "members", 0, << >>, << >>), "clear.members",
            Running("clear", << >>))
SendClearRem ==
    /\ pc = "clear"
    /\ Send(Command("this", "rem_vector", 0, << >>, SetToSeq(mems_set)),
            "clear", last)

\* details::sync_commit(*client_ptr) of the call under way.
Commit ==
    /\ conn.sub.phase = "queued"
    /\ LET res == sync_commit(conn, db) IN
       /\ db' = res.db
       /\ conn' = [res.conn EXCEPT !.sub.phase = "committed",
                                   !.sub.commits = @ + 1]
    /\ rt' = rt + 1
    /\ UNCHANGED << pc, last, pre, ks, key_vals, mems_set, ext, snaps,
                    written, added, balance >>

\* The call under way returns its local variable.
Return(next_pc, result) ==
    /\ conn.sub.phase = "committed"
    /\ conn' = [conn EXCEPT !.sub = NoConn.sub]
    /\ pre' = conn.sub.before
    /\ pc' = next_pc
    /\ last' = result
    /\ UNCHANGED << db, rt, ext, snaps, written, added, balance >>

ReturnPrimitive ==
    /\ pc = "idle"
    /\ Return("idle", Call(conn.sub.op, conn.sub.key, conn.sub.val,
                           conn.sub.args, conn.sub.ret))
    /\ UNCHANGED << ks, key_vals, mems_set >>
ReturnKeyValsKeys ==
    /\ pc = "key_vals.keys"
    /\ conn.sub.phase = "committed"
    /\ ks' = conn.sub.ret
    /\ IF conn.sub.ret = {}
       THEN Return("idle", Call("key_vals", 0, << >>, {}, EmptyMap))
       ELSE Return("key_vals", Running("key_vals", conn.sub.ret))
    /\ UNCHANGED << key_vals, mems_set >>
ReturnKeyValsGet ==
    /\ pc = "key_vals"
    /\ conn.sub.phase = "committed"
    /\ LET k == conn.sub.key
           kv == IF conn.sub.ret # None THEN Put(key_vals, k, conn.sub.ret[1])
                 ELSE key_vals
       IN /\ ks' = ks \ { k }
          /\ IF ks' = {}
             THEN /\ key_vals' = EmptyMap
                  /\ Return("idle", Call("key_vals", 0, << >>, last.args, kv))
             ELSE /\ key_vals' = kv
                  /\ Return("key_vals", last)
    /\ UNCHANGED mems_set
ReturnClearMembers ==
    /\ pc = "clear.members"
    /\ conn.sub.phase = "committed"
    /\ mems_set' = conn.sub.ret
    /\ Return("clear", Running("clear", conn.sub.ret))
    /\ UNCHANGED << ks, key_vals >>
ReturnClearRem ==
    /\ pc = "clear"
    /\ conn.sub.phase = "committed"
    /\ mems_set' = {}
    /\ Return("idle", Call("clear", 0, << >>, mems_set, conn.sub.ret))
    /\ UNCHANGED << ks, key_vals >>

\* The other caller queues a command on the same client.
OtherSend ==
    \E c \in { Command("other", "set", 1, << 97 >>, << >>),
               Command("other", "del", 1, << >>, << >>) } :
    /\ \A i \in 1..Len(conn.queue) : conn.queue[i].who # "other"
    /\ conn' = [conn EXCEPT !.queue = Append(@, c)]
    /\ UNCHANGED << db, pc, last, pre, rt, ks, key_vals, mems_set, ext,
                    snaps, written, added, balance >>

\* The other caller's sync_commit.
OtherCommit ==
    /\ conn.queue # << >>
    /\ LET res == sync_commit(conn, db) IN
       /\ db' = res.db
       /\ conn' = res.conn
    /\ UNCHANGED << pc, last, pre, rt, ks, key_vals, mems_set, ext, snaps,
                    written, added, balance >>

NextShared ==
    \/ SendPrimitive
    \/ SendKeyValsKeys
    \/ SendKeyValsGet
    \/ SendClearMembers
    \/ SendClearRem
    \/ Commit
    \/ ReturnPrimitive
    \/ ReturnKeyValsKeys
    \/ ReturnKeyValsGet
    \/ ReturnClearMembers
    \/ ReturnClearRem
    \/ OtherSend
    \/ OtherCommit

SpecShared == InitOwn /\ [][NextShared]_vars

\* ------------------------------------------------------ claims on the hash
HName == "h"
IsHashOrAbsent(d) == d[HName].kind # "set"
HasField(d, k) == pack(KType, k) \in DOMAIN d[HName].map

\* C1: on a hash, set(k,v) returns true exactly when field k was absent; a
\* set(k,v2) that follows it returns false, and get(k) after that returns
\* Some(v2), the last value written.
C1_SetCreatesThenUpdates ==
    (last.op = "set" /\ IsHashOrAbsent(pre))
      => /\ last.ret = ~HasField(pre, last.key)
         /\ hash_get(db, HName, last.key).ret = Some(last.val)
         /\ \A v2 \in Strs :
              LET following == hash_set(db, HName, last.key, v2)
              IN /\ following.ret = FALSE
                 /\ hash_get(following.db, HName, last.key).ret = Some(v2)

C1_Witness ==
    /\ last.op = "set" /\ last.ret = TRUE
    /\ ~HasField(pre, last.key)
    /\ \E v2 \in Strs :
         /\ v2 # last.val
         /\ hash_set(db, HName, last.key, v2).ret = FALSE
         /\ hash_get(hash_set(db, HName, last.key, v2).db, HName,
                     last.key).ret = Some(v2)

\* C2: on a hash, setnx(k,v) returns true exactly when field k was absent and
\* then stores v; a setnx on a present field returns false and leaves the
\* hash as it was, so a setnx(k,v2) that follows returns false and get(k) is
\* what it was before it.
C2_SetnxCreatesOnce ==
    (last.op = "setnx" /\ IsHashOrAbsent(pre))
      => /\ last.ret = ~HasField(pre, last.key)
         /\ last.ret => hash_get(db, HName, last.key).ret = Some(last.val)
         /\ ~last.ret => db = pre
         /\ \A v2 \in Strs :
              LET following == hash_setnx(db, HName, last.key, v2)
              IN /\ following.ret = FALSE
                 /\ hash_get(following.db, HName, last.key).ret
                      = hash_get(db, HName, last.key).ret

C2_Witness ==
    /\ last.op = "setnx" /\ last.ret = FALSE
    /\ HasField(pre, last.key)
    /\ \E v \in Strs :
         /\ v # last.val
         /\ hash_get(pre, HName, last.key).ret = Some(v)
         /\ hash_get(db, HName, last.key).ret = Some(v)

\* C3: del(k) returns false when field k is absent and true when it is
\* present; after a del(k) that returned true, exists(k) is false and get(k)
\* is None.
C3_DelReportsRemoval ==
    last.op = "del"
      => /\ last.ret = HasField(pre, last.key)
         /\ last.ret => /\ hash_exists(db, HName, last.key).ret = FALSE
                        /\ hash_get(db, HName, last.key).ret = None

C3_Witness ==
    /\ last.op = "del" /\ last.ret = TRUE
    /\ hash_exists(pre, HName, last.key).ret = TRUE
    /\ hash_exists(db, HName, last.key).ret = FALSE

\* C4: get(k) always returns an Option: None when field k is missing, None
\* when the stored bytes are not the encoding of a V, and Some(v) only when
\* the field exists and holds the encoding of v.
C4_GetNoneOnMissingOrUndecodable ==
    last.op = "get"
      => /\ last.ret \in { None } \cup { Some(v) : v \in Strs }
         /\ ~HasField(pre, last.key) => last.ret = None
         /\ (HasField(pre, last.key)
               /\ pre[HName].map[pack(KType, last.key)]
                     \notin { pack(VType, v) : v \in Strs })
               => last.ret = None
         /\ \A v \in Strs :
               last.ret = Some(v)
                 <=> /\ HasField(pre, last.key)
                     /\ pre[HName].map[pack(KType, last.key)] = pack(VType, v)

C4_Witness ==
    /\ last.op = "get"
    /\ HasField(pre, last.key)
    /\ pre[HName].map[pack(KType, last.key)] = ForeignVal
    /\ last.ret = None

\* C5: with no other client acting, key_vals() returns the mapping from every
\* key of the hash to its current value; a field written by set, or by a
\* setnx that returned true, is in that mapping with the value written.
C5_KeyValsIsTheContents ==
    /\ (last.op = "key_vals" /\ ext = 0)
          => last.ret = View(db[HName].map)
    /\ (IsHashOrAbsent(pre)
          /\ (last.op = "set" \/ (last.op = "setnx" /\ last.ret = TRUE)))
          => /\ last.key \in DOMAIN View(db[HName].map)
             /\ View(db[HName].map)[last.key] = last.val

C5_Witness ==
    /\ last.op = "key_vals"
    /\ ext = 0
    /\ rt = 1 + MaxKey
    /\ Cardinality(DOMAIN last.ret) = MaxKey
    /\ ForeignField \in DOMAIN db[HName].map

\* C6: key_vals() is one keys() round trip followed by one get() round trip
\* per fetched key; every pair it returns was in the hash at some instant of
\* the call, and with no other client acting the result is the contents of
\* the hash, but with another client acting between the round trips the
\* result need not be the contents at any instant of the call (C6_Witness).
C6_KeyValsPerKeyRoundTrips ==
    last.op = "key_vals"
      => /\ rt = 1 + Cardinality(last.args)
         /\ DOMAIN last.ret \subseteq last.args
         /\ \A k \in DOMAIN last.ret :
               \E i \in 1..Len(snaps) :
                  k \in DOMAIN snaps[i] /\ snaps[i][k] = last.ret[k]
         /\ \A k \in last.args \ DOMAIN last.ret :
               \E i \in 1..Len(snaps) : k \notin DOMAIN snaps[i]
         /\ ext = 0 => last.ret = snaps[1] /\ last.ret = View(db[HName].map)

C6_Witness ==
    /\ last.op = "key_vals"
    /\ ext > 0
    /\ \A i \in 1..Len(snaps) : last.ret # snaps[i]
    /\ \E k \in DOMAIN last.ret :
          k \in DOMAIN View(db[HName].map)
            /\ View(db[HName].map)[k] # last.ret[k]

\* C15: keys() is the set of keys the raw fields of the hash decode to: a key
\* written by set or setnx and not deleted is in it, raw fields that decode
\* to the same key give one element, a raw field that does not decode as K
\* gives none, and the result is empty when the hash does not exist.
C15_KeysAreTheDecodedFields ==
    /\ (last.op = "keys" /\ IsHashOrAbsent(pre))
          => /\ last.ret \subseteq Keys
             /\ \A k \in Keys :
                   k \in last.ret
                     <=> \E f \in DOMAIN pre[HName].map : Len(f) > 0 /\ f[1] = k
             /\ pre[HName].kind = "none" => last.ret = {}
    /\ (IsHashOrAbsent(pre)
          /\ (last.op = "set" \/ (last.op = "setnx" /\ last.ret = TRUE)))
          => last.key \in hash_keys(db, HName).ret
    /\ (pc = "idle" /\ IsHashOrAbsent(db))
          => written \subseteq hash_keys(db, HName).ret

C15_Witness ==
    /\ last.op = "keys"
    /\ { pack(KType, 1), AliasField, ForeignField } \subseteq DOMAIN pre[HName].map
    /\ pack(KType, 2) \notin DOMAIN pre[HName].map
    /\ last.ret = { 1 }

\* The number of fields of the map m that hold the raw value raw.
FieldsHolding(m, raw) == Cardinality({ f \in DOMAIN m : m[f] = raw })
Occurrences(seq, x) == Cardinality({ i \in 1..Len(seq) : seq[i] = x })

\* C16: vals() holds the decoded value of every field, once per field that
\* holds it, and nothing for a value that does not decode as V; a value
\* stored by set or setnx and not deleted occurs in it.
C16_ValsListsEveryFieldsValue ==
    /\ (last.op = "vals" /\ IsHashOrAbsent(pre))
          => /\ \A v \in Strs :
                   Occurrences(last.ret, v)
                     = FieldsHolding(pre[HName].map, pack(VType, v))
             /\ \A i \in 1..Len(last.ret) : last.ret[i] \in Strs
             /\ Len(last.ret) = Cardinality(DOMAIN pre[HName].map)
                                   - FieldsHolding(pre[HName].map, ForeignVal)
    /\ (IsHashOrAbsent(pre)
          /\ (last.op = "set" \/ (last.op = "setnx" /\ last.ret = TRUE)))
          => last.val \in Range(hash_vals(db, HName).ret)
    /\ pc = "idle"
          => \A k \in DOMAIN View(db[HName].map) :
                View(db[HName].map)[k] \in Range(hash_vals(db, HName).ret)

C16_Witness ==
    /\ last.op = "vals"
    /\ Len(last.ret) = 2
    /\ last.ret[1] = last.ret[2]
    /\ FieldsHolding(pre[HName].map, ForeignVal) = 1

\* C17: len() is the number of fields the remote hash has, whatever they
\* decode to, and 0 when the hash does not exist.
C17_LenCountsTheFields ==
    (last.op = "len" /\ IsHashOrAbsent(pre))
      => /\ last.ret = Cardinality(DOMAIN pre[HName].map)
         /\ pre[HName].kind = "none" => last.ret = 0

C17_Witness ==
    /\ last.op = "len"
    /\ last.ret = 3
    /\ { AliasField, ForeignField } \subseteq DOMAIN pre[HName].map
    /\ Cardinality(hash_keys(pre, HName).ret) = 1

\* C18: after any sequence of set, setnx and del by the one client of a
\* hash, exists(k) is true exactly when k was given to set or setnx and not
\* to del since: true after a set or setnx of k, false after a del of k and
\* for a key never written.
C18_ExistsFollowsTheCalls ==
    /\ last.op = "exists" => last.ret = (last.key \in written)
    /\ last.op \in { "set", "setnx" }
          => hash_exists(db, HName, last.key).ret = TRUE
    /\ last.op = "del" => hash_exists(db, HName, last.key).ret = FALSE
    /\ pc = "idle"
          => \A k \in Keys : hash_exists(db, HName, k).ret = (k \in written)

C18_Witness ==
    /\ last.op = "exists" /\ last.ret = FALSE
    /\ written # {}
    /\ hash_len(db, HName).ret = 1

\* ------------------------------------------------------- claims on the set
SName == "s"
IsSetOrAbsent(d) == d[SName].kind # "hash"
Encoded(ms) == { pack(TType, m) : m \in ms }

\* C7: on a set, add returns the number of distinct members of its argument
\* list that were not in the remote set, the variadic, iterator-range and
\* vector forms alike, and afterwards every argument is a member.
C7_AddCountsNewDistinctMembers ==
    (last.op = "add" /\ IsSetOrAbsent(pre))
      => /\ last.ret = Cardinality({ m \in Range(last.args) :
                                       pack(TType, m) \notin pre[SName].mem })
         /\ \A m \in Range(last.args) : set_is_member(db, SName, m).ret = TRUE
         /\ set_add_vector(pre, SName, last.args) = Ret(last.ret, db)
         /\ set_add_range(pre, SName, last.args) = Ret(last.ret, db)
         /\ Len(last.args) > 0
               => set_add(pre, SName, last.args) = Ret(last.ret, db)

C7_Witness ==
    /\ last.op = "add"
    /\ Len(last.args) = 2
    /\ last.args[1] = last.args[2]
    /\ pre[SName].mem # {}
    /\ last.ret = 1

\* C8: rem returns the number of distinct arguments that were members of the
\* remote set, the three forms alike, and card() drops by exactly that
\* number.
C8_RemCountsRemovedMembers ==
    last.op = "rem"
      => /\ last.ret = Cardinality({ m \in Range(last.args) :
                                       pack(TType, m) \in pre[SName].mem })
         /\ set_card(pre, SName).ret - set_card(db, SName).ret = last.ret
         /\ set_rem_vector(pre, SName, last.args) = Ret(last.ret, db)
         /\ set_rem_range(pre, SName, last.args) = Ret(last.ret, db)
         /\ Len(last.args) > 0
               => set_rem(pre, SName, last.args) = Ret(last.ret, db)

C8_Witness ==
    /\ last.op = "rem"
    /\ Len(last.args) = 2
    /\ last.args[1] = last.args[2]
    /\ Cardinality(pre[SName].mem) > 1
    /\ last.ret = 1

\* C9: with no other client acting, clear() on a set holding N members
\* returns N and leaves the set empty: card() is 0 and members() is empty.
C9_ClearReturnsNAndEmpties ==
    (last.op = "clear" /\ ext = 0 /\ IsSetOrAbsent(pre))
      => /\ last.ret = Cardinality(pre[SName].mem)
         /\ set_card(db, SName).ret = 0
         /\ set_members(db, SName).ret = {}

\* C10: clear() is two round trips, members() then rem(); its count is the
\* number of fetched members still present at the second round trip, and a
\* member another client added between the two round trips (one that was
\* not there at the first and is there at the second) is still in the set
\* when clear() returns, so the set is then not empty.
C10_ClearLeavesMembersAddedBetween ==
    last.op = "clear"
      => LET arrived == pre[SName].mem \ snaps[1]
         IN /\ rt = 2
            /\ last.ret = Cardinality(Encoded(last.args) \cap pre[SName].mem)
            /\ last.ret <= Cardinality(last.args)
            /\ arrived \subseteq db[SName].mem
            /\ arrived # {} => set_card(db, SName).ret > 0

C10_Witness ==
    /\ last.op = "clear"
    /\ ext > 0
    /\ pre[SName].mem \ snaps[1] # {}
    /\ last.ret > 0
    /\ last.ret = Cardinality(last.args)
    /\ set_card(db, SName).ret > 0

\* C11: after any sequence of add, rem and clear by the one client of a
\* set<T>, members() is the set of values added and not removed since, and
\* card() is the size of that set.
C11_MembersAndCardFollowTheCalls ==
    /\ last.op = "members" => last.ret = added
    /\ last.op = "card" => last.ret = Cardinality(added)
    /\ pc = "idle" => /\ set_members(db, SName).ret = added
                      /\ set_card(db, SName).ret = Cardinality(added)

C11_Witness ==
    /\ last.op = "rem" /\ last.ret = 1
    /\ Cardinality(AddedIn(pre)) = 2
    /\ Cardinality(added) = 1
    /\ set_members(db, SName).ret = added
    /\ set_card(db, SName).ret = 1

\* C19: is_member(m) is true exactly when m was added and not removed
\* since; a value that differs from every member, also when only in the
\* case of its letters, is not a member.
C19_IsMemberFollowsTheCalls ==
    /\ last.op = "is_member" => last.ret = (last.val \in added)
    /\ pc = "idle" =>
          \A m \in Probes : set_is_member(db, SName, m).ret = (m \in added)
    /\ \A v \in Strs : ToUpper(v) \notin added

C19_Witness ==
    /\ last.op = "is_member" /\ last.ret = FALSE
    /\ \E v \in added : last.val = ToUpper(v)

\* The values of T a remote set holds the encoding of.
RName == "r"
Held(d, name) == { v \in Strs : pack(TType, v) \in d[name].mem }

\* C12: for two sets of the same element type, lhs.diff(rhs) is the members
\* of lhs that are not members of rhs; a member of rhs that lhs does not
\* hold is not in the result.
C12_DiffIsThisMinusRhs ==
    last.op = "diff"
      => /\ last.ret = added \ Held(pre, RName)
         /\ last.ret = { v \in Held(pre, SName) : v \notin Held(pre, RName) }
         /\ \A v \in Held(pre, RName) \ Held(pre, SName) : v \notin last.ret

C12_Witness ==
    /\ last.op = "diff"
    /\ last.ret # {}
    /\ Held(pre, RName) \ Held(pre, SName) # {}
    /\ last.ret = Held(pre, SName)

\* C13: for two sets of the same element type, lhs.inter(rhs) is the members
\* the two sets have in common and lhs.union_(rhs) the members at least one
\* of them has.
C13_InterAndUnion ==
    /\ last.op = "inter"
          => last.ret = { v \in Strs : v \in Held(pre, SName)
                                         /\ v \in Held(pre, RName) }
    /\ last.op = "union_"
          => last.ret = { v \in Strs : v \in Held(pre, SName)
                                         \/ v \in Held(pre, RName) }
    /\ pc = "idle"
          => /\ set_inter(db, SName, RName).ret
                  = added \cap Held(db, RName)
             /\ set_union_(db, SName, RName).ret
                  = added \cup Held(db, RName)

C13_Witness ==
    /\ last.op = "union_"
    /\ Cardinality(last.ret) = 2
    /\ Cardinality(Held(pre, SName)) = 1
    /\ Cardinality(Held(pre, RName)) = 2
    /\ set_inter(db, SName, RName).ret = Held(pre, SName)

\* C14: with rhs a set of another element type, diff, inter and union_
\* return the members of the server's result that decode as T and leave out
\* every raw member that does not; the result is always a value, a set of
\* T.
C14_OtherTypeMembersAreLeftOut ==
    (last.op \in { "diff", "inter", "union_" }
       /\ IsSetOrAbsent(pre) /\ pre[RName].kind # "hash")
      => LET lhs == pre[SName].mem
             rhs == pre[RName].mem
             raw == IF last.op = "diff" THEN lhs \ rhs
                    ELSE IF last.op = "inter" THEN lhs \cap rhs
                    ELSE lhs \cup rhs
         IN /\ last.ret \in SUBSET Strs
            /\ last.ret = { v \in Strs : pack(TType, v) \in raw }
            /\ \A m \in raw : decode_from_str(TType, m) = None
                  => \A v \in last.ret : pack(TType, v) # m

C14_Witness ==
    /\ last.op = "union_"
    /\ pre[RName].mem # {}
    /\ \A m \in pre[RName].mem : decode_from_str(TType, m) = None
    /\ last.ret # {}
    /\ last.ret = Held(pre, SName)
    /\ Cardinality(last.ret) < Cardinality(pre[SName].mem \cup pre[RName].mem)

\* C20: a reply of another shape than the expected one, here the error
\* reply to a command on a name that holds the other kind of value, gives
\* the default result and no error: false from set, setnx, del, exists and
\* is_member, 0 from len, card, add and rem, None from get, and an empty
\* collection from keys, vals, members, diff, inter and union_; the server
\* is left as it was.
C20_OtherReplyShapesGiveDefaults ==
    /\ hlen(db, HName).reply.type = "error"
    /\ scard(db, SName).reply.type = "error"
    /\ sunion(db, << SName, RName >>).reply.type = "error"
    /\ db = pre
    /\ last.op \in { "set", "setnx", "del", "exists", "is_member" }
          => last.ret = FALSE
    /\ last.op \in { "len", "card", "add", "rem" } => last.ret = 0
    /\ last.op = "get" => last.ret = None
    /\ last.op \in { "keys", "members", "diff", "inter", "union_" }
          => last.ret = {}
    /\ last.op = "vals" => last.ret = << >>

C20_Witness ==
    /\ last.op = "add"
    /\ Len(last.args) = 2
    /\ sadd(pre, SName, str_vectorize(last.args)).reply.type = "error"
    /\ last.ret = 0

\* ----------------------------------------------------- claims on the codec
\* C22: the codec round-trips: decoding the encoding of a value of type V as
\* V gives Some of that value, and no other value of V has the same
\* encoding, so two keys or two members never share a field or member name.
C22_CodecRoundTrips ==
    /\ (last.op = "decode_from_str" /\ last.args[1] = last.args[2])
         => last.ret = Some(last.val)
    /\ last.op = "encode_into_str"
         => \A w \in CodecValues(last.args[1]) :
                w # last.val => encode_into_str(last.args[1], w) # last.ret

\* An int of the two-byte format and a non-empty string have come back.
C22_Witness ==
    /\ last.op = "decode_from_str"
    /\ last.args = << "int", "int" >>
    /\ last.val > 127
    /\ Len(last.key) = 2
    /\ last.ret = Some(last.val)

\* -------------------------------------------- claims on both collections
\* C24: the operations that only read (hash get, exists, keys, vals, len,
\* key_vals; set card, is_member, members, diff, inter, union_) leave the
\* server as it was: every step of a program that calls only these leaves
\* every name with the fields and members it had, and diff, inter and union_
\* store nothing.
C24_ReadsLeaveTheServerAlone == [][db' = db]_vars

\* union_ has returned members of both sets, and key_vals both a field's
\* value and nothing for the others.
C24_Witness ==
    \/ /\ last.op = "union_"
       /\ last.ret # {}
       /\ db["r"].mem # {}
       /\ db["s"].mem # db["r"].mem
    \/ /\ last.op = "key_vals"
       /\ DOMAIN last.ret # {}
       /\ DOMAIN last.ret # last.args

\* C25: clear() removes exactly the members that decode as T: of the members
\* the set held when clear() was called, the ones that decode as T are gone
\* and were fetched, the ones that do not decode as T are still there, and
\* the value returned is the number of members removed.
C25_ClearRemovesWhatDecodes ==
    (last.op = "clear" /\ ext = 0) =>
        LET held == snaps[1]
            decodable == { m \in held : decode_from_str(TType, m) # None }
        IN /\ last.args = { decode_from_str(TType, m)[1] : m \in decodable }
           /\ db[SName].mem = held \ decodable
           /\ last.ret = Cardinality(held \ db[SName].mem)

\* C26: from an empty hash and with this program as the only client, after
\* any sequence of set, setnx and del calls len() is the number of set and
\* setnx calls that returned true less the number of del calls that returned
\* true, and a set, setnx or del that returns false leaves len() as it was.
C26_LenIsTheBalanceOfTheCalls ==
    /\ hash_len(db, HName).ret = balance
    /\ (last.op \in { "set", "setnx", "del" } /\ last.ret = FALSE)
         => hash_len(db, HName).ret = hash_len(pre, HName).ret

\* A del has returned true while another key stays, after sets that
\* returned true.
C26_Witness ==
    /\ last.op = "del"
    /\ last.ret = TRUE
    /\ balance = 1
    /\ hash_len(db, HName).ret = 1
    /\ hash_len(pre, HName).ret = 2

\* ----------------------------------------------- claims on connecting
\* C23: make_and_connect never raises: when the underlying client throws
\* while being created or connected the call returns Err, and when the call
\* returns Ok the client it returns is connected.
C23_MakeAndConnectNeverRaises ==
    last.op = "make_and_connect" =>
        /\ ~last.ret.raised
        /\ last.args[1] \in { "create_throws", "connect_throws" }
             => ~last.ret.is_ok
        /\ last.ret.is_ok => last.ret.value.is_connected

\* An attempt has returned Ok with the client connected to the address
\* asked for.
C23_Witness ==
    /\ last.op = "make_and_connect"
    /\ last.ret.is_ok
    /\ last.ret.value.is_connected
    /\ last.ret.value.host = DEFAULT_HOST
    /\ pc = "idle"

\* ------------------------------------------- claims on the round trips
\* C21: every primitive operation issues exactly one command and then makes
\* exactly one sync_commit on the shared client, and returns only after the
\* callback of its command has run, so that what it returns is what that
\* callback made of the reply to its own command; key_vals makes one commit
\* per key and one more, clear makes two.  Another caller queueing and
\* committing on the same client does not change this.
C21_OneCommandOneCommitOwnReply ==
    /\ conn.sub.phase = "committed"
         => /\ conn.sub.cmds = 1
            /\ conn.sub.commits = 1
            /\ conn.sub.ran
            /\ conn.sub.ret = Facade(conn.sub.op, conn.sub.key, conn.sub.val,
                                     conn.sub.args, conn.sub.before).ret
    /\ (pc = "idle" /\ conn.sub.phase = "none")
         => /\ last.op \notin { "none", "key_vals", "clear" } => rt = 1
            /\ last.op = "key_vals" => rt = 1 + Cardinality(last.args)
            /\ last.op = "clear" => rt = 2

\* A get is about to return the value the field had when its command ran,
\* though a del of the other caller, sent by the same commit, has removed
\* the field since.
C21_Witness ==
    /\ conn.sub.phase = "committed"
    /\ conn.sub.op = "get"
    /\ conn.sub.ret = Some(<< 97 >>)
    /\ conn.sub.commits = 1
    /\ pc = "idle"
    /\ db["h"].kind = "none"

TypeOK ==
    pc \in {"idle", "key_vals", "clear", "unconnected", "key_vals.keys",
            "clear.members"}
====
